---- MODULE Spec2Model ----
(***************************************************************************)
(* State-machine model of the DSP core of lsp-plugins:                     *)
(*   - Oscilloscope (src/src/core/util/Oscilloscope.cpp)       : Spec      *)
(*   - biquad_process_x1/x2/x4/x8 (include/core/native/filters.h) : SpecBq *)
(*   - Analyzer (src/src/core/util/Analyzer.cpp)               : SpecAn    *)
(* Each subsystem has its own specification; the variables of the other    *)
(* subsystems stay at their initial values under it.                       *)
(***************************************************************************)
EXTENDS Integers, Sequences, FiniteSets, TLC

(***************************************************************************)
(* Oscilloscope: constants and bounds                                      *)
(***************************************************************************)

\* #define CAPTURE_BUFFER_LIMIT_SIZE 196608, scaled down to a ring of 3 floats
\* (still a multiple of every modelled oversampling factor).
CAPTURE_BUFFER_LIMIT_SIZE == 3

\* #define SWEEP_BUFFER_LIMIT_SIZE 196608, scaled down like the capture ring.
SWEEP_BUFFER_LIMIT_SIZE == 3

\* size_t arithmetic is modular; the width is scaled down to 16 bits.
SIZE_MOD == 65536

\* Largest pre-/post-trigger time a setter asks for (in sample periods).
MaxTime == 2

\* Largest count passed to one Oscilloscope::process call.
MaxCount == 2

\* Total number of oversampled samples ingested in one behaviour.
MaxSamples == 6

\* Number of times update_settings applies a pending sync in one behaviour.
MaxSyncs == 1
MaxResyncs == 2

OSC_STATE_ACQUIRING == "ACQUIRING"
OSC_STATE_SWEEPING == "SWEEPING"

TRG_STATE_WAITING == "WAITING"
TRG_STATE_FIRED == "FIRED"

OM_NONE == "OM_NONE"
OM_3X == "OM_3X"

\* Content of a float that was never written (the buffers are not cleared on
\* allocation): a token different from every sample.
Uninit == 0

VARIABLES
    \* ---- Oscilloscope fields
    nSampleRate, enOverMode, nOversampling, enState,
    fPreTrigger, fPostTrigger, nPreTrigger, nPostTrigger, nLimit,
    nSweepHead, bSweepComplete, nBufHead, nTriggerAt, bSync,
    vCaptureBuffer, vSweepBuffer,
    \* ---- sTrigger (collaborator): state after the last sample it was fed
    tState,
    \* ---- observation of the run (not program state)
    obs,
    \* ---- biquad: the filter (variant, coefficients, delay memory f->d), the
    \* input, the dst buffer, the samples consumed so far, the delay memory
    \* before the first call, and what the last call did
    bqKind, bqCoef, bqD, bqSrc, bqDst, bqPos, bqD0, bqLast,
    \* ---- Analyzer: the object's fields, and the observation of its calls
    an, anObs

oscVars == <<nSampleRate, enOverMode, nOversampling, enState,
             fPreTrigger, fPostTrigger, nPreTrigger, nPostTrigger, nLimit,
             nSweepHead, bSweepComplete, nBufHead, nTriggerAt, bSync,
             vCaptureBuffer, vSweepBuffer, tState, obs>>

bqVars == <<bqKind, bqCoef, bqD, bqSrc, bqDst, bqPos, bqD0, bqLast>>

anVars == <<an, anObs>>

vars == <<oscVars, bqVars, anVars>>

Min(a, b) == IF a < b THEN a ELSE b

\* a - b on size_t
USub(a, b) == (a - b + SIZE_MOD) % SIZE_MOD

(***************************************************************************)
(* Collaborators of the oscilloscope (their code is not part of the        *)
(* sources at hand; modelled from the specification).                      *)
(***************************************************************************)

\* Oversampler::get_oversampling() for the configured mode.
get_oversampling(mode) == IF mode = OM_3X THEN 3 ELSE 1

\* seconds_to_samples(sr, t): the possible results of size_t(sr * t).
\* A rate that was never set is -1; the product is then -0.0 for t = 0 and
\* negative otherwise, and the conversion of a negative float to size_t is
\* undefined: it yields 0 or a huge value.
seconds_to_samples(sr, t) ==
    IF sr >= 0 THEN {sr * t}
    ELSE IF t = 0 THEN {0}
    ELSE {0, SIZE_MOD - 1}

\* samples_to_seconds(sr, n) = n / sr (sample periods; exact for the modelled
\* rates, which divide the buffer sizes). With a rate that was never set the
\* quotient is not a usable time; it converts back to no samples.
samples_to_seconds(sr, n) == IF sr > 0 THEN n \div sr ELSE 0

(***************************************************************************)
(* Oscilloscope: buffers                                                   *)
(***************************************************************************)

CapIdx == 0 .. (CAPTURE_BUFFER_LIMIT_SIZE - 1)
SwpIdx == 0 .. (SWEEP_BUFFER_LIMIT_SIZE - 1)

\* dsp::copy(&vSweepBuffer[at], &vCaptureBuffer[from], len): the sweep buffer
\* after the copy. Floats that would land behind the end of the sweep buffer
\* are outside the array and are not part of it.
CopyToSweep(sweep, at, cap, from, len) ==
    [i \in SwpIdx |->
        IF i >= at /\ i < at + len /\ (from + (i - at)) \in CapIdx
        THEN cap[from + (i - at)]
        ELSE sweep[i]]

\* TRUE when the copy writes behind the end of the sweep buffer.
CopyOverruns(at, len) == len > 0 /\ at + len > SWEEP_BUFFER_LIMIT_SIZE

\* sOver.upsample(&vCaptureBuffer[head], src, to_do): to_store oversampled
\* samples are written at head ..; the k-th sample ever ingested is the
\* number k, so that samples are told apart by their place in the stream.
Upsample(cap, head, to_store, ingested) ==
    [i \in CapIdx |->
        IF i >= head /\ i < head + to_store THEN ingested + (i - head) + 1
        ELSE cap[i]]

(***************************************************************************)
(* Oscilloscope::process, computed on a record o of the fields it uses:    *)
(*   enState, nSweepHead, bSweepComplete, nBufHead, nTriggerAt,            *)
(*   vCaptureBuffer, vSweepBuffer, tState  (program state)                 *)
(*   count  : input samples still to consume                               *)
(*   off    : oversampled samples written so far by this call              *)
(*   ing    : oversampled samples ingested so far (all calls)              *)
(*   trigId : stream number of the sample of the last accepted FIRED       *)
(*   firedSw: the last accepted FIRED was acted on while SWEEPING          *)
(*   steps  : SWEEPING iterations since the last accepted FIRED (0, 1, 2+) *)
(*   compl  : sweep completions since the last accepted FIRED (0, 1, 2+)   *)
(*   overrun: a copy wrote behind the end of the sweep buffer              *)
(*   resetAt : value of ing when update_settings last reset the heads      *)
(*   resynced: update_settings was applied after the last accepted FIRED   *)
(*   src    : offset of the pointer src into the caller's block            *)
(*   srcs   : offsets into the caller's block of the input samples         *)
(*            upsampled so far by this call, in the order read             *)
(*   trans  : the assignments to enState made by this call, in order       *)
(* and, outside process: syncs (syncs applied), clamped (the last sync     *)
(* clamped a sample count), op (the last operation called).                *)
(***************************************************************************)

Cap2(n) == IF n > 2 THEN 2 ELSE n

\* sOver.upsample(.., src, to_do) reads src[0 .. to_do-1]: the offsets read,
\* src pointing at offset src of the caller's block
SrcRead(src, to_do) == [k \in 1 .. to_do |-> src + (k - 1)]

\* Oscilloscope::sweep_from_the_past (pre: the pre-trigger sample count)
sweep_from_the_past(o, pre) ==
    LET CAP == CAPTURE_BUFFER_LIMIT_SIZE
        copyHead == IF o.nTriggerAt < pre
                    THEN CAP - pre + o.nTriggerAt
                    ELSE o.nTriggerAt - pre
    IN  IF copyHead >= o.nTriggerAt
        THEN LET len1 == CAP - copyHead
                 sw1 == CopyToSweep(o.vSweepBuffer, o.nSweepHead,
                                    o.vCaptureBuffer, copyHead, len1)
                 h1 == o.nSweepHead + len1
                 sw2 == CopyToSweep(sw1, h1, o.vCaptureBuffer, 0, o.nTriggerAt)
             IN  [o EXCEPT !.vSweepBuffer = sw2,
                           !.nSweepHead = h1 + o.nTriggerAt,
                           !.overrun = @ \/ CopyOverruns(o.nSweepHead, len1)
                                         \/ CopyOverruns(h1, o.nTriggerAt)]
        ELSE LET len == o.nTriggerAt - copyHead
             IN  [o EXCEPT !.vSweepBuffer = CopyToSweep(o.vSweepBuffer, o.nSweepHead,
                                                        o.vCaptureBuffer, copyHead, len),
                           !.nSweepHead = o.nSweepHead + len,
                           !.overrun = @ \/ CopyOverruns(o.nSweepHead, len)]

\* sTrigger.single_sample_processor(bufptr[n]); sTrigger.get_trigger_state():
\* the detector reports FIRED on the samples the environment chooses (the
\* set F of offsets into this call's oversampled stream), and, FIRED being a
\* one-shot state, never on two successive samples.
TriggerState(o, n, F) ==
    IF (o.off + n) \in F /\ o.tState # TRG_STATE_FIRED
    THEN TRG_STATE_FIRED ELSE TRG_STATE_WAITING

\* An assignment to enState, as observed: the run-state, the trigger state,
\* the capture head and the sweep head before it (o), the sample offset n of
\* the trigger loop and nLimit, and the run-state, nTriggerAt, the sweep head
\* and the completion flag after the assignments that go with it (o1)
Transition(o, o1, n, limit) ==
    [from |-> o.enState, to |-> o1.enState, tState |-> o.tState,
     bufHead |-> o.nBufHead, n |-> n, limit |-> limit, headWas |-> o.nSweepHead,
     nTriggerAt |-> o1.nTriggerAt, head |-> o1.nSweepHead,
     complete |-> o1.bSweepComplete]

\* The FIRED branch recording nTriggerAt = nHead, without the offset n
OnFired_athead(o, n, pre) ==
    LET o1 == [o EXCEPT !.enState = OSC_STATE_SWEEPING,
                        !.nTriggerAt = o.nBufHead,
                        !.nSweepHead = 0,
                        !.bSweepComplete = FALSE,
                        !.firedSw = (o.enState = OSC_STATE_SWEEPING),
                        !.trigId = o.ing + n + 1,
                        !.steps = 0,
                        !.compl = 0,
                        !.resynced = FALSE]
    IN  sweep_from_the_past(
            [o1 EXCEPT !.trans = Append(@, Transition(o, o1, n, 0))], pre)

\* The body of the loop "if (tState == TRG_STATE_FIRED) { ... }" for sample n
\* of the batch written at o.nBufHead.
OnFired(o, n, pre) ==
    LET o1 == [o EXCEPT !.enState = OSC_STATE_SWEEPING,
                        !.nTriggerAt = o.nBufHead + n,
                        !.nSweepHead = 0,
                        !.bSweepComplete = FALSE,
                        !.firedSw = (o.enState = OSC_STATE_SWEEPING),
                        !.trigId = o.ing + n + 1,
                        !.steps = 0,
                        !.compl = 0,
                        !.resynced = FALSE]
    IN  sweep_from_the_past(
            [o1 EXCEPT !.trans = Append(@, Transition(o, o1, n, 0))], pre)

\* for (size_t n = 0; n < to_store; ++n) { ... }
RECURSIVE TriggerLoop(_, _, _, _, _)
TriggerLoop(o, n, to_store, F, pre) ==
    IF n >= to_store THEN o
    ELSE LET ts == TriggerState(o, n, F)
             o1 == [o EXCEPT !.tState = ts]
             o2 == IF ts = TRG_STATE_FIRED THEN OnFired(o1, n, pre) ELSE o1
         IN  TriggerLoop(o2, n + 1, to_store, F, pre)

\* case OSC_STATE_ACQUIRING: one iteration of the while loop
AcquiringStep(o, M, F, pre) ==
    LET to_process == M * o.count
        remaining == CAPTURE_BUFFER_LIMIT_SIZE - o.nBufHead
        to_store == IF to_process > remaining THEN remaining ELSE to_process
        to_do == to_store \div M
        o1 == [o EXCEPT !.vCaptureBuffer =
                            Upsample(o.vCaptureBuffer, o.nBufHead, to_do * M, o.ing)]
        o2 == TriggerLoop(o1, 0, to_store, F, pre)
    IN  [o2 EXCEPT !.nBufHead = (o.nBufHead + to_store) % CAPTURE_BUFFER_LIMIT_SIZE,
                   !.count = o.count - to_do,
                   !.ing = o.ing + to_do * M,
                   !.off = o.off + to_store,
                   !.srcs = @ \o SrcRead(o.src, to_do)]

\* case OSC_STATE_SWEEPING: one iteration of the while loop
SweepingStep(o, M, post, limit) ==
    LET CAP == CAPTURE_BUFFER_LIMIT_SIZE
        copyTail0 == (o.nTriggerAt + post) % CAP
        copyTail == IF copyTail0 < o.nBufHead THEN copyTail0 ELSE o.nBufHead
        o1 == IF o.nTriggerAt <= copyTail
              THEN LET len == copyTail - o.nTriggerAt + 1
                   IN  [o EXCEPT !.vSweepBuffer =
                                     CopyToSweep(o.vSweepBuffer, o.nSweepHead,
                                                 o.vCaptureBuffer, o.nTriggerAt, len),
                                 !.nSweepHead = o.nSweepHead + len,
                                 !.overrun = @ \/ CopyOverruns(o.nSweepHead, len)]
              ELSE LET len1 == CAP - o.nTriggerAt
                       sw1 == CopyToSweep(o.vSweepBuffer, o.nSweepHead,
                                          o.vCaptureBuffer, o.nTriggerAt, len1)
                       sw2 == CopyToSweep(sw1, o.nSweepHead,
                                          o.vCaptureBuffer, 0, copyTail + 1)
                   IN  [o EXCEPT !.vSweepBuffer = sw2,
                                 !.nTriggerAt = o.nTriggerAt + len1,
                                 !.nSweepHead = o.nSweepHead + copyTail + 1,
                                 !.overrun = @ \/ CopyOverruns(o.nSweepHead, len1)
                                               \/ CopyOverruns(o.nSweepHead, copyTail + 1)]
        to_process == M * o.count
        remaining == CAP - o.nBufHead
        to_store == IF to_process > remaining THEN remaining ELSE to_process
        to_do == to_store \div M
        o2 == [o1 EXCEPT !.vCaptureBuffer =
                             Upsample(o1.vCaptureBuffer, o.nBufHead, to_do * M, o.ing),
                         !.nBufHead = (o.nBufHead + to_store) % CAP,
                         !.count = o.count - to_do,
                         !.ing = o.ing + to_do * M,
                         !.off = o.off + to_store,
                         !.srcs = @ \o SrcRead(o.src, to_do),
                         !.steps = Cap2(o.steps + 1)]
        o3 == [o2 EXCEPT !.enState = OSC_STATE_ACQUIRING,
                         !.nSweepHead = 0,
                         !.bSweepComplete = TRUE,
                         !.compl = Cap2(o.compl + 1)]
    IN  IF o2.nSweepHead >= USub(limit, 1)
        THEN [o3 EXCEPT !.trans = Append(@, Transition(o2, o3, 0, limit))]
        ELSE o2

\* while (count > 0) { switch (enState) ... }
RECURSIVE ProcessLoop(_, _, _, _, _, _)
ProcessLoop(o, M, F, pre, post, limit) ==
    IF o.count <= 0 THEN o
    ELSE IF o.enState = OSC_STATE_ACQUIRING
         THEN ProcessLoop(AcquiringStep(o, M, F, pre), M, F, pre, post, limit)
         ELSE ProcessLoop(SweepingStep(o, M, post, limit), M, F, pre, post, limit)

(***************************************************************************)
(* Oscilloscope: initial state and operations                              *)
(***************************************************************************)

\* Oscilloscope::Oscilloscope(), then init() (which allocates the buffers
\* without clearing them)
OscInit ==
    /\ nSampleRate = -1
    /\ enOverMode = OM_NONE
    /\ nOversampling = 0
    /\ enState = OSC_STATE_ACQUIRING
    /\ fPreTrigger = 0
    /\ fPostTrigger = 0
    /\ nPreTrigger = 0
    /\ nPostTrigger = 0
    /\ nLimit = 0
    /\ nSweepHead = 0
    /\ bSweepComplete = FALSE
    /\ nBufHead = 0
    /\ nTriggerAt = 0
    /\ bSync = TRUE
    /\ vCaptureBuffer = [i \in CapIdx |-> Uninit]
    /\ vSweepBuffer = [i \in SwpIdx |-> Uninit]
    /\ tState = TRG_STATE_WAITING
    /\ obs = [ing |-> 0, trigId |-> 0, firedSw |-> FALSE, steps |-> 0,
              compl |-> 0, overrun |-> FALSE, resetAt |-> 0, resynced |-> FALSE,
              syncs |-> 0, clamped |-> FALSE, op |-> "init", srcs |-> << >>,
              trans |-> << >>]

\* The host changes settings only as long as it will still apply them.
CanSet == obs.syncs < MaxSyncs

\* The host that changes settings between process calls too
CanResync == obs.syncs < MaxResyncs

\* Setters (declared in Oscilloscope.h): store the value and ask for a sync.

set_sample_rate(sr) ==
    /\ nSampleRate' = sr
    /\ bSync' = TRUE
    /\ obs' = [obs EXCEPT !.op = "set"]
    /\ UNCHANGED <<enOverMode, nOversampling, enState, fPreTrigger, fPostTrigger,
                   nPreTrigger, nPostTrigger, nLimit, nSweepHead, bSweepComplete,
                   nBufHead, nTriggerAt, vCaptureBuffer, vSweepBuffer, tState>>
    /\ UNCHANGED <<bqVars, anVars>>

set_oversampler_mode(mode) ==
    /\ enOverMode' = mode
    /\ bSync' = TRUE
    /\ obs' = [obs EXCEPT !.op = "set"]
    /\ UNCHANGED <<nSampleRate, nOversampling, enState, fPreTrigger, fPostTrigger,
                   nPreTrigger, nPostTrigger, nLimit, nSweepHead, bSweepComplete,
                   nBufHead, nTriggerAt, vCaptureBuffer, vSweepBuffer, tState>>
    /\ UNCHANGED <<bqVars, anVars>>

set_pre_trigger(t) ==
    /\ fPreTrigger' = t
    /\ bSync' = TRUE
    /\ obs' = [obs EXCEPT !.op = "set"]
    /\ UNCHANGED <<nSampleRate, enOverMode, nOversampling, enState, fPostTrigger,
                   nPreTrigger, nPostTrigger, nLimit, nSweepHead, bSweepComplete,
                   nBufHead, nTriggerAt, vCaptureBuffer, vSweepBuffer, tState>>
    /\ UNCHANGED <<bqVars, anVars>>

set_post_trigger(t) ==
    /\ fPostTrigger' = t
    /\ bSync' = TRUE
    /\ obs' = [obs EXCEPT !.op = "set"]
    /\ UNCHANGED <<nSampleRate, enOverMode, nOversampling, enState, fPreTrigger,
                   nPreTrigger, nPostTrigger, nLimit, nSweepHead, bSweepComplete,
                   nBufHead, nTriggerAt, vCaptureBuffer, vSweepBuffer, tState>>
    /\ UNCHANGED <<bqVars, anVars>>

\* size_t minBufSize = (CAPTURE < SWEEP) ? CAPTURE : SWEEP
minBufSize == Min(CAPTURE_BUFFER_LIMIT_SIZE, SWEEP_BUFFER_LIMIT_SIZE)

\* nPreTrigger = (nPreTrigger < minBufSize) ? nPreTrigger : minBufSize
ClampPre(n) == IF n < minBufSize THEN n ELSE minBufSize

\* availableForPost without the pre-trigger part taken off
availableForPost_nopre(pre) == SWEEP_BUFFER_LIMIT_SIZE

\* size_t availableForPost = SWEEP_BUFFER_LIMIT_SIZE - sSweepParams.nPreTrigger
availableForPost(pre) == SWEEP_BUFFER_LIMIT_SIZE - pre

\* nPostTrigger = (nPostTrigger < availableForPost) ? nPostTrigger : availableForPost
ClampPost(n, pre) == IF n < availableForPost(pre) THEN n ELSE availableForPost(pre)

\* Oscilloscope::update_settings
update_settings ==
    /\ bSync
    /\ LET M == get_oversampling(enOverMode)
           nOverSampleRate == M * nSampleRate
       IN  \E p \in seconds_to_samples(nOverSampleRate, fPreTrigger) :
           \E q \in seconds_to_samples(nOverSampleRate, fPostTrigger) :
              LET pre == ClampPre(p)
                  post == ClampPost(q, pre)
              IN  /\ nOversampling' = M
                  /\ nPreTrigger' = pre
                  /\ fPreTrigger' = samples_to_seconds(nOverSampleRate, pre)
                  /\ nPostTrigger' = post
                  /\ fPostTrigger' = samples_to_seconds(nOverSampleRate, post)
                  /\ nLimit' = pre + post
                  /\ obs' = [obs EXCEPT !.resetAt = obs.ing, !.resynced = TRUE,
                                        !.syncs = @ + 1,
                                        !.op = "update_settings",
                                        !.firedSw = FALSE,
                                        !.clamped = (pre # p \/ post # q)]
    /\ nSweepHead' = 0
    /\ bSweepComplete' = FALSE
    /\ nBufHead' = 0
    /\ nTriggerAt' = 0
    /\ tState' = TRG_STATE_WAITING
    /\ bSync' = FALSE
    /\ UNCHANGED <<nSampleRate, enOverMode, enState, vCaptureBuffer, vSweepBuffer>>
    /\ UNCHANGED <<bqVars, anVars>>

\* update_settings resetting the heads with bSync clear
update_settings_nosync_resets ==
    /\ ~bSync
    /\ obs' = [obs EXCEPT !.op = "update_settings"]
    /\ nSweepHead' = 0
    /\ nBufHead' = 0
    /\ UNCHANGED <<nSampleRate, enOverMode, nOversampling, enState, fPreTrigger,
                   fPostTrigger, nPreTrigger, nPostTrigger, nLimit,
                   bSweepComplete, nTriggerAt, bSync, vCaptureBuffer,
                   vSweepBuffer, tState>>
    /\ UNCHANGED <<bqVars, anVars>>

\* update_settings with bSync clear: "if (!bSync) return;"
update_settings_nosync ==
    /\ ~bSync
    /\ obs' = [obs EXCEPT !.op = "update_settings"]
    /\ UNCHANGED <<nSampleRate, enOverMode, nOversampling, enState, fPreTrigger,
                   fPostTrigger, nPreTrigger, nPostTrigger, nLimit, nSweepHead,
                   bSweepComplete, nBufHead, nTriggerAt, bSync, vCaptureBuffer,
                   vSweepBuffer, tState>>
    /\ UNCHANGED <<bqVars, anVars>>

\* The sets of offsets 0 .. n-1 on which a one-shot detector can report FIRED
FireSets(n) == {G \in SUBSET (0 .. (n - 1)) : \A i \in G : (i + 1) \notin G}

\* Oscilloscope::process(dst, src, count), the trigger firing on the offsets F.
\* The host sets the sample rate and applies pending settings before it
\* processes audio, so that nOversampling, a divisor here, has been set.
process(count, F) ==
    /\ ~bSync
    /\ nSampleRate > 0
    /\ nOversampling > 0
    /\ obs.ing + nOversampling * count <= MaxSamples
    /\ LET o == [enState |-> enState, nSweepHead |-> nSweepHead,
                 bSweepComplete |-> bSweepComplete, nBufHead |-> nBufHead,
                 nTriggerAt |-> nTriggerAt, vCaptureBuffer |-> vCaptureBuffer,
                 vSweepBuffer |-> vSweepBuffer, tState |-> tState,
                 count |-> count, off |-> 0,
                 ing |-> obs.ing, trigId |-> obs.trigId, firedSw |-> obs.firedSw,
                 steps |-> obs.steps, compl |-> obs.compl, overrun |-> obs.overrun,
                 resetAt |-> obs.resetAt, resynced |-> obs.resynced,
                 src |-> 0, srcs |-> << >>, trans |-> << >>]
           r == ProcessLoop(o, nOversampling, F, nPreTrigger, nPostTrigger, nLimit)
       IN  /\ enState' = r.enState
           /\ nSweepHead' = r.nSweepHead
           /\ bSweepComplete' = r.bSweepComplete
           /\ nBufHead' = r.nBufHead
           /\ nTriggerAt' = r.nTriggerAt
           /\ vCaptureBuffer' = r.vCaptureBuffer
           /\ vSweepBuffer' = r.vSweepBuffer
           /\ tState' = r.tState
           /\ obs' = [ing |-> r.ing, trigId |-> r.trigId, firedSw |-> r.firedSw,
                      steps |-> r.steps, compl |-> r.compl, overrun |-> r.overrun,
                      resetAt |-> r.resetAt, resynced |-> r.resynced,
                      syncs |-> obs.syncs, clamped |-> obs.clamped,
                      op |-> "process", srcs |-> r.srcs, trans |-> r.trans]
    /\ UNCHANGED <<nSampleRate, enOverMode, nOversampling, fPreTrigger, fPostTrigger,
                   nPreTrigger, nPostTrigger, nLimit, bSync>>
    /\ UNCHANGED <<bqVars, anVars>>

(***************************************************************************)
(* Oscilloscope: properties                                                *)
(***************************************************************************)

\* The trigger event of the current sweep was observed under settings that
\* were applied with a sample rate set, and it was not acted on while
\* SWEEPING.
CleanFired ==
    /\ ~bSync
    /\ nSampleRate > 0
    /\ obs.trigId > 0
    /\ ~obs.resynced
    /\ ~obs.firedSw

\* A sweep that process has completed for such a trigger event.
CleanSweepDone ==
    /\ bSweepComplete
    /\ CleanFired

\* C1: while the run-state is SWEEPING no FIRED observation is acted on: none
\* changes nTriggerAt, resets the sweep head or re-runs the pre-trigger splice.
C1_NoTriggerWhileSweeping == ~obs.firedSw

\* C2: when a sweep completes, sweep[0 .. nPreTrigger-1] holds, in order, the
\* nPreTrigger samples ingested immediately before the trigger sample
\* (whenever that many were ingested since the heads were last reset).
C2_PreTriggerHistory ==
    (CleanSweepDone /\ obs.trigId - 1 - obs.resetAt >= nPreTrigger)
        => \A k \in 0 .. (nPreTrigger - 1) :
              vSweepBuffer[k] = obs.trigId - nPreTrigger + k

\* C3: when a sweep completes, the sample at offset nPreTrigger of the sweep
\* buffer is the trigger-causing sample.
C3_TriggerSampleAtPre ==
    (CleanSweepDone /\ nPreTrigger < SWEEP_BUFFER_LIMIT_SIZE)
        => vSweepBuffer[nPreTrigger] = obs.trigId

\* C4: once nLimit samples following a FIRED event have been ingested (and
\* process has run a SWEEPING iteration for it), the sweep of that event has
\* completed exactly once.
C4_OneCompletionPerFired ==
    (/\ CleanFired
     /\ obs.ing - obs.trigId >= nLimit
     /\ obs.steps >= 1)
        => obs.compl = 1

\* C5: after update_settings has applied a sync (and after any process calls
\* since), nPreTrigger <= min(CAP, SWP), nPreTrigger + nPostTrigger <= SWP and
\* nLimit = nPreTrigger + nPostTrigger.
C5_SweepGeometry ==
    obs.syncs >= 1 =>
        /\ nPreTrigger <= Min(CAPTURE_BUFFER_LIMIT_SIZE, SWEEP_BUFFER_LIMIT_SIZE)
        /\ nPreTrigger + nPostTrigger <= SWEEP_BUFFER_LIMIT_SIZE
        /\ nLimit = nPreTrigger + nPostTrigger

\* C5 witness: a sync clamped the post-trigger count to what the pre-trigger
\* part leaves of the sweep buffer, and process has run since.
C5_Witness ==
    /\ obs.syncs >= 1
    /\ obs.clamped
    /\ obs.ing > 0
    /\ nPreTrigger > 0
    /\ nPostTrigger > 0
    /\ nPreTrigger + nPostTrigger = SWEEP_BUFFER_LIMIT_SIZE

\* C18: within one process call every input sample src[0 .. count-1] is
\* upsampled into the capture ring exactly once and in input order, also
\* when a capture-ring wrap or a state change splits the call into several
\* loop iterations.
C18_EachSampleOnceInOrder ==
    obs.op = "process" =>
        \A k \in 1 .. Len(obs.srcs) : obs.srcs[k] = k - 1

\* The program state of the oscilloscope
oscState ==
    <<nSampleRate, enOverMode, nOversampling, enState, fPreTrigger, fPostTrigger,
      nPreTrigger, nPostTrigger, nLimit, nSweepHead, bSweepComplete, nBufHead,
      nTriggerAt, bSync, vCaptureBuffer, vSweepBuffer, tState>>

\* The step is an update_settings call that follows another operation (one
\* that follows an update_settings call finds bSync clear and the state as
\* the call before left it)
UpdateStep == obs'.op = "update_settings" /\ obs.op # "update_settings"

C24_PostTriggerContiguous ==
    CleanSweepDone =>
        \A k \in nPreTrigger .. (Min(nLimit, SWEEP_BUFFER_LIMIT_SIZE) - 1) :
            vSweepBuffer[k] = obs.trigId + (k - nPreTrigger)

\* The run-states a call passes through: from `from', each assignment of
\* trans starts where the one before it ended
RECURSIVE Chained(_, _)
Chained(from, trans) ==
    IF trans = << >> THEN from
    ELSE IF Head(trans).from = from THEN Chained(Head(trans).to, Tail(trans))
    ELSE "broken"

\* What the state machine allows an assignment to enState to be
AllowedTransition(e) ==
    /\ (e.from = OSC_STATE_ACQUIRING /\ e.to = OSC_STATE_SWEEPING) =>
           /\ e.tState = TRG_STATE_FIRED
           /\ e.nTriggerAt = e.bufHead + e.n
           /\ e.head = 0 /\ ~e.complete
    /\ (e.from = OSC_STATE_SWEEPING /\ e.to = OSC_STATE_ACQUIRING) =>
           /\ e.headWas >= e.limit - 1
           /\ e.head = 0 /\ e.complete
    /\ e.from = OSC_STATE_ACQUIRING => e.to = OSC_STATE_SWEEPING

\* C25: the run-state starts as ACQUIRING; it changes only in process calls;
\* a call moves it from ACQUIRING to SWEEPING only on a FIRED observation, with
\* nTriggerAt = capture head + n, the sweep head 0 and the completion flag
\* clear, and from SWEEPING to ACQUIRING only with the sweep head at
\* nLimit - 1 or more, setting the completion flag and the sweep head to 0.
C25_TwoStateMachine ==
    /\ (obs.op = "init" => enState = OSC_STATE_ACQUIRING)
    /\ [][/\ enState' # enState => obs'.op = "process"
          /\ obs'.op = "process" =>
                /\ Chained(enState, obs'.trans) = enState'
                /\ \A k \in 1 .. Len(obs'.trans) : AllowedTransition(obs'.trans[k])]_vars

\* A process call has moved the run-state to SWEEPING on a FIRED observation
\* at a nonzero offset of its batch, and back to ACQUIRING
C25_Witness ==
    /\ obs.op = "process" /\ Len(obs.trans) >= 2
    /\ \E k \in 1 .. Len(obs.trans) :
          obs.trans[k].from = OSC_STATE_ACQUIRING /\ obs.trans[k].n > 0
    /\ \E k \in 1 .. Len(obs.trans) :
          obs.trans[k].from = OSC_STATE_SWEEPING /\ obs.trans[k].to = OSC_STATE_ACQUIRING

C26_SweepBufferSafe ==
    nSweepHead <= SWEEP_BUFFER_LIMIT_SIZE /\ ~obs.overrun

\* C29: a step in which update_settings applies a pending sync (the only step
\* that clears bSync) ends with the run-state ACQUIRING.
C29_AcquiringAfterSync ==
    [][(bSync /\ ~bSync') => enState' = OSC_STATE_ACQUIRING]_vars

(***************************************************************************)
(* Biquad engine (filters.h)                                               *)
(*                                                                         *)
(* Floats are modelled by integers (sums and products of small integers    *)
(* are exact in float arithmetic too). A lane's coefficients are the       *)
(* record [a0, a1, a2, b1, b2]; the delay memory f->d is a function on     *)
(* 0 .. 15.                                                                *)
(***************************************************************************)

\* Number of input samples of one behaviour (the length of src and dst).
MaxLen == 4

DIdx == 0 .. 15

Lane(a0, a1, a2, b1, b2) == [a0 |-> a0, a1 |-> a1, a2 |-> a2, b1 |-> b1, b2 |-> b2]

\* The coefficient sets a lane is given in the model.
LANES == {Lane(1, 1, 0, 1, 0), Lane(2, -1, 1, 0, 1)}

\* The input samples of the model.
SAMPLES == {1, -2}

\* The delay memories a filter starts with: cleared, or holding a ramp.
DELAYS == {[k \in DIdx |-> 0], [k \in DIdx |-> k + 1]}

\* One biquad in transposed form on the sample x with the delay pair
\* (d0, d1):  s2 = a0*s + d[0];  p1 = a1*s + b1*s2;  p2 = a2*s + b2*s2;
\* d[0] = d[1] + p1;  d[1] = p2
BqLane(c, x, d0, d1) ==
    LET s2 == c.a0 * x + d0
        p1 == c.a1 * x + c.b1 * s2
        p2 == c.a2 * x + c.b2 * s2
    IN  [y |-> s2, d0 |-> d1 + p1, d1 |-> p2]

\* The state of one call: the delay memory d, the dst buffer, the offsets
\* read relative to src (rd), the offsets written relative to dst (wr), and whether a
\* write went behind the end of the dst buffer (over).
BqCallState(d, dst) == [d |-> d, dst |-> dst, rd |-> {}, wr |-> {}, over |-> FALSE]

\* dst[k] = v for the call whose dst pointer is at base
BqWrite(st, base, k, v) ==
    [st EXCEPT !.dst = IF base + k < Len(@) THEN [@ EXCEPT ![base + k + 1] = v] ELSE @,
               !.over = @ \/ (base + k >= Len(st.dst)),
               !.wr = @ \cup {k}]

\* src[k] for the call whose src pointer is at base
BqRead(src, base, k) == src[base + k + 1]

\* biquad_process_x1: for (i = 0; i < count; ++i) { ... }
RECURSIVE biquad_process_x1_loop(_, _, _, _, _, _)
biquad_process_x1_loop(st, c, src, base, count, i) ==
    IF i >= count THEN st
    ELSE LET r == BqLane(c[1], BqRead(src, base, i), st.d[0], st.d[1])
             st1 == BqWrite([st EXCEPT !.rd = @ \cup {i}], base, i, r.y)
             st2 == [st1 EXCEPT !.d = [@ EXCEPT ![0] = r.d0, ![1] = r.d1]]
         IN  biquad_process_x1_loop(st2, c, src, base, count, i + 1)

biquad_process_x1(st, c, src, base, count) ==
    biquad_process_x1_loop(st, c, src, base, count, 0)

\* biquad_process_x2, "First filter only": the state and the carry r
X2Start(st, c, src, base) ==
    LET p == BqLane(c[1], BqRead(src, base, 0), st.d[0], st.d[1])
    IN  [st |-> [st EXCEPT !.rd = @ \cup {0},
                           !.d = [@ EXCEPT ![0] = p.d0, ![1] = p.d1]],
         r |-> p.y]

\* biquad_process_x2, "Both filters": for (i = 1; i < count; ++i) { ... };
\* the k-th output of the call is written by iteration i = k + 1
RECURSIVE X2Body(_, _, _, _, _, _)
X2Body(x, c, src, base, count, i) ==
    IF i >= count THEN x
    ELSE LET q == BqLane(c[2], x.r, x.st.d[4], x.st.d[5])
             p == BqLane(c[1], BqRead(src, base, i), x.st.d[0], x.st.d[1])
             st1 == BqWrite([x.st EXCEPT !.rd = @ \cup {i}], base, i - 1, q.y)
             st2 == [st1 EXCEPT !.d = [@ EXCEPT ![4] = q.d0, ![0] = p.d0,
                                               ![5] = q.d1, ![1] = p.d1]]
         IN  X2Body([st |-> st2, r |-> p.y], c, src, base, count, i + 1)

\* biquad_process_x2, "Second filter only" without the shift of its delay pair
X2Drain_noshift(x, base, count) ==
    LET q == BqLane(x.c2, x.r, x.st.d[4], x.st.d[5])
    IN  BqWrite(x.st, base, count - 1, q.y)

\* biquad_process_x2, "Second filter only"
X2Drain(x, base, count) ==
    LET q == BqLane(x.c2, x.r, x.st.d[4], x.st.d[5])
        st1 == BqWrite(x.st, base, count - 1, q.y)
    IN  [st1 EXCEPT !.d = [@ EXCEPT ![4] = q.d0, ![5] = q.d1]]

biquad_process_x2(st, c, src, base, count) ==
    IF count <= 0 THEN st
    ELSE LET x == X2Body(X2Start(st, c, src, base), c, src, base, count, 1)
         IN  X2Drain([st |-> x.st, r |-> x.r, c2 |-> c[2]], base, count)

\* (mask & bit) != 0 for bit = 2^k
MaskBit(mask, k) == (mask \div (2 ^ k)) % 2 = 1

\* The registers of biquad_process_x4 and of one pass of biquad_process_x8:
\* s[4] and s2[4] (zeroed), mask, i, and the number of *(dst++) done (w)
X4Regs(st) ==
    [st |-> st, s |-> [j \in 0 .. 3 |-> 0], s2 |-> [j \in 0 .. 3 |-> 0],
     mask |-> 0, i |-> 0, w |-> 0]

\* Lane j:  s2[j] = a0[j]*s[j] + d[j];  d[j] = d[bank+j] + p1[j];  d[bank+j] = p2[j]
X4Lane(x, c, j, bank) ==
    LET r == BqLane(c[j + 1], x.s[j], x.st.d[j], x.st.d[bank + j])
    IN  [x EXCEPT !.s2 = [@ EXCEPT ![j] = r.y],
                  !.st = [@ EXCEPT !.d = [@ EXCEPT ![j] = r.d0, ![bank + j] = r.d1]]]

X4LaneIf(cond, x, c, j, bank) == IF cond THEN X4Lane(x, c, j, bank) ELSE x

\* s[0] = *(src++)
X4Push(x, src, base) ==
    [x EXCEPT !.s = [@ EXCEPT ![0] = BqRead(src, base, x.i)],
              !.st = [@ EXCEPT !.rd = @ \cup {x.i}]]

\* "Shift buffer":  s[3] = s2[2];  s[2] = s2[1];  s[1] = s2[0]
X4Shift(x) == [x EXCEPT !.s = [@ EXCEPT ![3] = x.s2[2], ![2] = x.s2[1], ![1] = x.s2[0]]]

\* *(dst++) = s2[3]
X4Emit(x, base) == [x EXCEPT !.st = BqWrite(@, base, x.w, x.s2[3]), !.w = @ + 1]

\* "Start filters": do { ... if ((++i) >= count) break; } while (i < 3)
RECURSIVE X4Start(_, _, _, _, _, _)
X4Start(x, c, src, base, count, bank) ==
    LET x0 == [X4Push(x, src, base) EXCEPT !.mask = IF MaskBit(@, 0) THEN @ ELSE @ + 1]
        x1 == X4Lane(x0, c, 0, bank)
        x2 == X4LaneIf(MaskBit(x1.mask, 1), x1, c, 1, bank)
        x3 == X4LaneIf(MaskBit(x2.mask, 2), x2, c, 2, bank)
        x4 == [X4Shift(x3) EXCEPT !.mask = @ * 2, !.i = @ + 1]
    IN  IF x4.i >= count \/ ~(x4.i < 3) THEN x4
        ELSE X4Start(x4, c, src, base, count, bank)

\* "Process all filters simultaneously": while (i < count) { ... }
RECURSIVE X4Steady(_, _, _, _, _, _)
X4Steady(x, c, src, base, count, bank) ==
    IF ~(x.i < count) THEN x
    ELSE LET x0 == X4Push(x, src, base)
             x1 == X4Lane(X4Lane(X4Lane(X4Lane(x0, c, 0, bank), c, 1, bank),
                                 c, 2, bank), c, 3, bank)
             x2 == [X4Shift(X4Emit(x1, base)) EXCEPT !.i = @ + 1]
         IN  X4Steady(x2, c, src, base, count, bank)

\* "Finish processing": do { ... mask = (mask << 1) & 0x0f; } while (mask != 0)
RECURSIVE X4Finish(_, _, _, _)
X4Finish(x, c, base, bank) ==
    LET x1 == X4LaneIf(MaskBit(x.mask, 1), x, c, 1, bank)
        x2 == X4LaneIf(MaskBit(x1.mask, 2), x1, c, 2, bank)
        x3 == X4Emit(X4Lane(x2, c, 3, bank), base)
        x4 == [X4Shift(x3) EXCEPT !.mask = (@ * 2) % 16]
    IN  IF x4.mask # 0 THEN X4Finish(x4, c, base, bank) ELSE x4

\* The three phases with the registers x
X4Pass(x, c, src, base, count, bank) ==
    X4Finish(X4Steady(X4Start(x, c, src, base, count, bank), c, src, base, count, bank),
             c, base, bank)

biquad_process_x4(st, c, src, base, count) ==
    IF count <= 0 THEN st
    ELSE X4Pass(X4Regs(st), c, src, base, count, 4).st

\* The coefficient lanes pass n of biquad_process_x8 works with: lanes
\* 4n .. 4n+3 of the chain
X8Coef(c, n) == [j \in 1 .. 4 |-> c[4 * n + j]]

\* biquad_process_x8: s and s2 are zeroed once; each pass starts with
\* mask = 0, i = 0, sp = src, dp = dst
biquad_process_x8(st, c, src, base, count) ==
    IF count <= 0 THEN st
    ELSE LET x0 == X4Pass(X4Regs(st), X8Coef(c, 0), src, base, count, 8)
             x1 == X4Pass([x0 EXCEPT !.mask = 0, !.i = 0, !.w = 0],
                          X8Coef(c, 1), src, base, count, 8)
         IN  x1.st

BQ_KINDS == {"x1", "x2", "x4", "x8"}

\* The chains of the model: eight lanes, of which x1 uses the first, x2 the
\* first two, x4 the first four
CHAINS ==
    { [j \in 1 .. 8 |-> Lane(1, 1, 0, 1, 0)],
      [j \in 1 .. 8 |-> IF j % 2 = 1 THEN Lane(1, 1, 0, 1, 0) ELSE Lane(2, -1, 1, 0, 1)],
      [j \in 1 .. 8 |-> IF j % 2 = 1 THEN Lane(2, -1, 1, 0, 1) ELSE Lane(1, 1, 0, 1, 0)] }

\* All sequences of length n over S
SeqsOfLen(S, n) == [1 .. n -> S]

\* biquad_process_x{1,2,4,8}(dst + base, src + base, count, f)
biquad_process(kind, st, c, src, base, count) ==
    CASE kind = "x1" -> biquad_process_x1(st, c, src, base, count)
      [] kind = "x2" -> biquad_process_x2(st, c, src, base, count)
      [] kind = "x4" -> biquad_process_x4(st, c, src, base, count)
      [] kind = "x8" -> biquad_process_x8(st, c, src, base, count)

\* No call made yet
BqNoCall == [count |-> 0, rd |-> {}, wr |-> {}, over |-> FALSE, calls |-> 0]

\* A chain with its coefficients and delay memory, a stream of MaxLen input
\* samples and a dst buffer of the same length
BqInit ==
    /\ bqKind \in BQ_KINDS
    /\ bqCoef \in CHAINS
    /\ bqD \in DELAYS
    /\ bqD0 = bqD
    /\ bqSrc \in SeqsOfLen(SAMPLES, MaxLen)
    /\ bqDst = [k \in 1 .. MaxLen |-> 0]
    /\ bqPos = 0
    /\ bqLast = BqNoCall

\* The biquad engine is not in use
BqIdle ==
    /\ bqKind = "x1"
    /\ bqCoef = [j \in 1 .. 8 |-> Lane(1, 1, 0, 1, 0)]
    /\ bqD = [k \in DIdx |-> 0]
    /\ bqD0 = bqD
    /\ bqSrc = << >>
    /\ bqDst = << >>
    /\ bqPos = 0
    /\ bqLast = BqNoCall

\* The caller filters the next count samples of the stream:
\* biquad_process_xN(dst + pos, src + pos, count, f); pos += count
BqCall(count) ==
    /\ bqPos + count <= Len(bqSrc)
    /\ LET st == biquad_process(bqKind, BqCallState(bqD, bqDst), bqCoef, bqSrc, bqPos, count)
       IN  /\ bqD' = st.d
           /\ bqDst' = st.dst
           /\ bqLast' = [count |-> count, rd |-> st.rd, wr |-> st.wr, over |-> st.over,
                         calls |-> bqLast.calls + 1]
    /\ bqPos' = bqPos + count
    /\ UNCHANGED <<bqKind, bqCoef, bqSrc, bqD0>>
    /\ UNCHANGED <<oscVars, anVars>>

(***************************************************************************)
(* Biquad engine: properties                                               *)
(***************************************************************************)

\* The whole stream filtered by one call from the initial delay memory
BqOneCall ==
    biquad_process(bqKind, BqCallState(bqD0, [k \in 1 .. Len(bqSrc) |-> 0]),
                   bqCoef, bqSrc, 0, Len(bqSrc))

\* C6: a call with count >= 1 reads exactly src[0 .. count-1] and writes
\* exactly dst[0 .. count-1], for each of x1, x2, x4 and x8.
C6_ExactlyCountSamples ==
    bqLast.count >= 1 =>
        /\ bqLast.rd = 0 .. (bqLast.count - 1)
        /\ bqLast.wr = 0 .. (bqLast.count - 1)

\* C7: for x1, x2 and x4, once the whole stream has been filtered by any
\* number of consecutive non-empty calls, the outputs and the delay memory
\* are those of one call over the whole stream.
C7_Continuity ==
    (bqKind \in {"x1", "x2", "x4"} /\ Len(bqSrc) > 0 /\ bqPos = Len(bqSrc)) =>
        /\ bqDst = BqOneCall.dst
        /\ bqD = BqOneCall.d

\* The first n samples of the stream through x1 with stage A from the
\* initial delay pair d[0], d[1]
X1StageA(n) ==
    biquad_process_x1(BqCallState(bqD0, [k \in 1 .. Len(bqSrc) |-> 0]),
                      <<bqCoef[1]>>, bqSrc, 0, n)

\* The result of X1StageA through x1 with stage B from the initial delay
\* pair d[4], d[5]
X1StageB(n) ==
    biquad_process_x1(BqCallState([k \in DIdx |-> IF k < 2 THEN bqD0[4 + k] ELSE 0],
                                  [k \in 1 .. Len(bqSrc) |-> 0]),
                      <<bqCoef[2]>>, X1StageA(n).dst, 0, n)

\* C8: biquad_process_x2 gives the outputs of x1 with stage A followed by x1
\* with stage B, sample for sample, and leaves the delay pairs d[0], d[1] and
\* d[4], d[5] as the two x1 runs leave theirs.
C8_X2IsCascadeOfX1 ==
    (bqKind = "x2" /\ bqPos >= 1) =>
        /\ \A k \in 1 .. bqPos : bqDst[k] = X1StageB(bqPos).dst[k]
        /\ bqD[0] = X1StageA(bqPos).d[0] /\ bqD[1] = X1StageA(bqPos).d[1]
        /\ bqD[4] = X1StageB(bqPos).d[0] /\ bqD[5] = X1StageB(bqPos).d[1]

\* x2 has filtered the whole stream in two or more calls, the last of more
\* than one sample, with a non-zero initial delay memory and distinct stages
C8_Witness ==
    /\ bqKind = "x2" /\ bqPos = Len(bqSrc) /\ bqPos >= 3
    /\ bqLast.calls >= 2 /\ bqLast.count >= 2
    /\ bqD0[4] # 0 /\ bqCoef[1] # bqCoef[2]
    /\ \E k \in 1 .. bqPos : bqDst[k] # 0

\* Two x4 passes over the lanes 0 .. 3 and 4 .. 7 of the chain, the second
\* reading what the first wrote to dst
X8Cascade(st, c, src, base, count) ==
    LET x0 == X4Pass(X4Regs(st), X8Coef(c, 0), src, base, count, 8)
        x1 == X4Pass([x0 EXCEPT !.mask = 0, !.i = 0, !.w = 0],
                     X8Coef(c, 1), x0.st.dst, base, count, 8)
    IN  x1.st

\* C21: for x8 with dst and src distinct buffers, one call over the whole
\* stream (count >= 3) leaves in dst what two x4 passes leave of which the
\* second reads the output stream of the first.
C21_X8SecondPassReadsFirst ==
    (bqKind = "x8" /\ bqLast.calls = 1 /\ bqLast.count = Len(bqSrc)
        /\ bqLast.count >= 3) =>
        bqDst = X8Cascade(BqCallState(bqD0, [k \in 1 .. Len(bqSrc) |-> 0]),
                          bqCoef, bqSrc, 0, Len(bqSrc)).dst

(***************************************************************************)
(* Spectrum analyzer (Analyzer.cpp)                                        *)
(*                                                                         *)
(* The object is the record an, its fields named as in the class. Floats   *)
(* that are parameters are small integers. The tables and the smoothing    *)
(* factor are the tuples of the values they were computed from. A          *)
(* channel's vAmp is the number of spectra mixed into it since it was      *)
(* last zeroed (0: all zeros). Samples carry their number in the input.    *)
(***************************************************************************)

\* The calls of one behaviour after init (setter, flag and process calls
\* together), and the samples a process call is given
MaxOps == 5
MaxAnCount == 4

\* The calls of one behaviour that starts before init
MaxChOps == 3
MaxLifeOps == 4

\* Alignment of the allocator (declared outside of the sources given)
DEFAULT_ALIGN == 16

ALIGN_SIZE(x, a) == ((x + a - 1) \div a) * a

R_ENVELOPE == "R_ENVELOPE"
R_WINDOW == "R_WINDOW"
R_ANALYSIS == "R_ANALYSIS"
R_TAU == "R_TAU"
R_COUNTERS == "R_COUNTERS"
R_ALL == {R_ENVELOPE, R_WINDOW, R_ANALYSIS, R_TAU, R_COUNTERS}

PINK_NOISE == "PINK_NOISE"
WHITE_NOISE == "WHITE_NOISE"
HANN == "HANN"
HAMMING == "HAMMING"

\* Table contents: all zeros, or generated for a size and a shape
NoTable == [size |-> 0, kind |-> "zero", shift |-> 0]

\* windows::window(vWindow, fft_size, nWindow)
WindowTable(size, w) == [size |-> size, kind |-> w, shift |-> 0]

\* envelope::reverse_noise(vEnvelope, fft_size, nEnvelope); mul_k2 by fShift / fft_size
EnvelopeTable(size, e, shift) == [size |-> size, kind |-> e, shift |-> shift]

\* fTau = 1.0f, and fTau computed from the sample rate, the FFT period and
\* the reactivity
TauOne == [sr |-> -1, period |-> -1, react |-> -1]
TauOf(sr, period, react) == [sr |-> sr, period |-> period, react |-> react]

\* channel_t after init: zeroed ring and amplitudes
NewChannel(bufsize) ==
    [vBuffer |-> [k \in 0 .. (bufsize - 1) |-> 0], vAmp |-> 0,
     nCounter |-> 0, nHead |-> 0, nDelay |-> 0, bFreeze |-> FALSE, bActive |-> TRUE]

\* Analyzer::construct
construct ==
    [nChannels |-> 0, nMaxRank |-> 0, nRank |-> 0, nSampleRate |-> 0,
     nMaxSampleRate |-> 0, nBufSize |-> 0, nFftPeriod |-> 0, fReactivity |-> 0,
     fTau |-> TauOne, fRate |-> 1, fMinRate |-> 1, fShift |-> 1,
     nReconfigure |-> {}, nEnvelope |-> PINK_NOISE, nWindow |-> HANN,
     bActive |-> TRUE, vChannelsNull |-> TRUE, vChannels |-> << >>,
     vSigRe |-> << >>, vWindow |-> NoTable, vEnvelope |-> NoTable]

\* What the last call was and did: the operation, its argument (the
\* channel of a channel-indexed call) and what it returned ("void" if
\* nothing); for process the channel,
\* the sample count, whether it passed the guard, the bits pending before
\* it and the bits whose branch it ran, the FFTs that fell due, whether the
\* channel was frozen when called, whether the call before it was a process
\* call that passed the guard too (again). Then the number of setter and flag
\* calls and of process calls so far, the samples given so far, and whether
\* a process call has not returned
AnNoCall ==
    [op |-> "construct", arg |-> 0, ret |-> "void", again |-> FALSE, ch |-> 0, samples |-> 0, valid |-> FALSE,
     pending |-> {}, applied |-> {}, ffts |-> 0, frozen |-> FALSE,
     sets |-> 0, calls |-> 0, ing |-> 0, hung |-> FALSE, win |-> <<>>]

AnInit ==
    /\ an = construct
    /\ anObs = AnNoCall

\* A call other than process was made: op(arg) returned ret
AnNote(op, arg, ret) ==
    [anObs EXCEPT !.op = op, !.arg = arg, !.ret = ret, !.again = FALSE, !.valid = FALSE, !.samples = 0,
                  !.pending = an.nReconfigure, !.applied = {}, !.ffts = 0,
                  !.frozen = FALSE, !.ch = 0,
                  !.sets = IF op = "init" THEN @ ELSE @ + 1]

\* The host sets parameters and flags of an initialised analyzer, between
\* process calls, a bounded number of times
AnCanSet ==
    ~anObs.hung /\ ~an.vChannelsNull /\ anObs.sets + anObs.calls < MaxOps

\* Analyzer::destroy on the object a: the channel array is deleted and its
\* pointer nulled; no other field is written
destroy(a) ==
    [a EXCEPT !.vChannelsNull = TRUE, !.vChannels = << >>]

\* Analyzer::init on the object a with the allocations succeeding (destroy,
\* then allocate)
init(a, channels, max_rank, max_sr, min_rate) ==
    LET fft_size == 2 ^ max_rank
        bufsize == ALIGN_SIZE(max_rank * 2 + (max_sr \div min_rate), DEFAULT_ALIGN)
    IN  [destroy(a) EXCEPT !.nBufSize = bufsize,
                           !.nChannels = channels,
                           !.nMaxRank = max_rank,
                           !.nMaxSampleRate = max_sr,
                           !.nRank = max_rank,
                           !.fMinRate = min_rate,
                           !.vSigRe = [k \in 0 .. (fft_size - 1) |-> 0],
                           !.vWindow = NoTable,
                           !.vEnvelope = NoTable,
                           !.vChannelsNull = FALSE,
                           !.vChannels = [i \in 1 .. channels |-> NewChannel(bufsize)],
                           !.nReconfigure = R_ALL]

\* Analyzer::init returning true, called on an analyzer without channels
Analyzer_init(channels, max_rank, max_sr, min_rate) ==
    /\ ~anObs.hung /\ an.vChannelsNull
    /\ an' = init(an, channels, max_rank, max_sr, min_rate)
    /\ anObs' = AnNote("init", channels, TRUE)
    /\ UNCHANGED <<oscVars, bqVars>>

\* Analyzer::init returning false because an allocation failed: destroy has
\* run and nBufSize is stored
Analyzer_init_fail(channels, max_rank, max_sr, min_rate) ==
    /\ ~anObs.hung
    /\ an' = [destroy(an) EXCEPT !.nBufSize =
                  ALIGN_SIZE(max_rank * 2 + (max_sr \div min_rate), DEFAULT_ALIGN)]
    /\ anObs' = AnNote("init", channels, FALSE)
    /\ UNCHANGED <<oscVars, bqVars>>

\* Analyzer::destroy
Analyzer_destroy ==
    /\ ~anObs.hung
    /\ an' = destroy(an)
    /\ anObs' = AnNote("destroy", 0, "void")
    /\ UNCHANGED <<oscVars, bqVars>>

\* Analyzer::set_sample_rate
Analyzer_set_sample_rate(sr0) ==
    /\ AnCanSet
    /\ LET sr == Min(sr0, an.nMaxSampleRate)
       IN  an' = IF an.nSampleRate = sr THEN an
                 ELSE [an EXCEPT !.nSampleRate = sr, !.nReconfigure = @ \cup R_ALL]
    /\ anObs' = AnNote("set_sample_rate", sr0, "void")
    /\ UNCHANGED <<oscVars, bqVars>>

\* set_rate marking the counters whether or not the rate differs
Analyzer_set_rate_remark(rate0) ==
    /\ AnCanSet
    /\ LET rate == IF an.fMinRate > rate0 THEN an.fMinRate ELSE rate0
       IN  an' = [an EXCEPT !.fRate = rate, !.nReconfigure = @ \cup {R_COUNTERS}]
    /\ anObs' = AnNote("set_rate", rate0, "void")
    /\ UNCHANGED <<oscVars, bqVars>>

\* Analyzer::set_rate
Analyzer_set_rate(rate0) ==
    /\ AnCanSet
    /\ LET rate == IF an.fMinRate > rate0 THEN an.fMinRate ELSE rate0
       IN  an' = IF an.fRate = rate THEN an
                 ELSE [an EXCEPT !.fRate = rate, !.nReconfigure = @ \cup {R_COUNTERS}]
    /\ anObs' = AnNote("set_rate", rate0, "void")
    /\ UNCHANGED <<oscVars, bqVars>>

\* Analyzer::set_window
Analyzer_set_window(window) ==
    /\ AnCanSet
    /\ LET w == window
       IN  an' = IF an.nWindow = w THEN an
                 ELSE [an EXCEPT !.nWindow = w, !.nReconfigure = @ \cup {R_WINDOW}]
    /\ anObs' = AnNote("set_window", window, "void")
    /\ UNCHANGED <<oscVars, bqVars>>

\* Analyzer::set_envelope
Analyzer_set_envelope(envelope) ==
    /\ AnCanSet
    /\ LET e == envelope
       IN  an' = IF an.nEnvelope = e THEN an
                 ELSE [an EXCEPT !.nEnvelope = e, !.nReconfigure = @ \cup {R_ENVELOPE}]
    /\ anObs' = AnNote("set_envelope", envelope, "void")
    /\ UNCHANGED <<oscVars, bqVars>>

\* Analyzer::set_shift
Analyzer_set_shift(shift) ==
    /\ AnCanSet
    /\ LET sh == shift
       IN  an' = IF an.fShift = sh THEN an
                 ELSE [an EXCEPT !.fShift = sh, !.nReconfigure = @ \cup {R_ENVELOPE}]
    /\ anObs' = AnNote("set_shift", shift, "void")
    /\ UNCHANGED <<oscVars, bqVars>>

\* Analyzer::set_reactivity
Analyzer_set_reactivity(reactivity) ==
    /\ AnCanSet
    /\ LET re == reactivity
       IN  an' = IF an.fReactivity = re THEN an
                 ELSE [an EXCEPT !.fReactivity = re, !.nReconfigure = @ \cup {R_TAU}]
    /\ anObs' = AnNote("set_reactivity", reactivity, "void")
    /\ UNCHANGED <<oscVars, bqVars>>

\* set_rank without the test for the current rank
set_rank_remark(a, rank) ==
    IF rank < 2 \/ rank > a.nMaxRank THEN [a |-> a, ret |-> FALSE]
    ELSE [a |-> [a EXCEPT !.nRank = rank, !.nReconfigure = @ \cup R_ALL], ret |-> TRUE]

\* Lines 203-212 on the object a: the object afterwards and the value returned
set_rank(a, rank) ==
    IF rank < 2 \/ rank > a.nMaxRank THEN [a |-> a, ret |-> FALSE]
    ELSE IF a.nRank = rank THEN [a |-> a, ret |-> TRUE]
    ELSE [a |-> [a EXCEPT !.nRank = rank, !.nReconfigure = @ \cup R_ALL], ret |-> TRUE]

\* Analyzer::set_rank
Analyzer_set_rank(rank) ==
    /\ AnCanSet
    /\ an' = set_rank(an, rank).a
    /\ anObs' = AnNote("set_rank", rank, set_rank(an, rank).ret)
    /\ UNCHANGED <<oscVars, bqVars>>

\* The host makes channel-indexed calls at any time, also before init
AnCanCall ==
    ~anObs.hung /\ anObs.sets + anObs.calls < MaxOps

\* Analyzer::freeze_channel; a store through the null vChannels lands in no
\* channel
freeze_channel(channel, freeze) ==
    /\ AnCanCall
    /\ an' = IF channel >= an.nChannels \/ an.vChannelsNull THEN an
             ELSE [an EXCEPT !.vChannels[channel + 1].bFreeze = freeze]
    /\ anObs' = AnNote("freeze_channel", channel, ~(channel >= an.nChannels))
    /\ UNCHANGED <<oscVars, bqVars>>

\* Analyzer::enable_channel; a store through the null vChannels lands in no
\* channel
enable_channel(channel, enable) ==
    /\ AnCanCall
    /\ an' = IF channel >= an.nChannels \/ an.vChannelsNull THEN an
             ELSE [an EXCEPT !.vChannels[channel + 1].bActive = enable]
    /\ anObs' = AnNote("enable_channel", channel, ~(channel >= an.nChannels))
    /\ UNCHANGED <<oscVars, bqVars>>

\* reconfigure works on the pair of the object a and the set of the bits
\* whose branch has run (done)
ReconfEnvelope(r) ==
    IF R_ENVELOPE \in r.a.nReconfigure
    THEN [a |-> [r.a EXCEPT !.vEnvelope = EnvelopeTable(2 ^ r.a.nRank, r.a.nEnvelope, r.a.fShift)],
          done |-> r.done \cup {R_ENVELOPE}]
    ELSE r

ReconfAnalysis(r) ==
    IF R_ANALYSIS \in r.a.nReconfigure
    THEN [a |-> [r.a EXCEPT !.vChannels = [i \in 1 .. Len(@) |-> [@[i] EXCEPT !.vAmp = 0]]],
          done |-> r.done \cup {R_ANALYSIS}]
    ELSE r

\* "Update window" left out
ReconfWindow_skipped(r) == r

ReconfWindow(r) ==
    IF R_WINDOW \in r.a.nReconfigure
    THEN [a |-> [r.a EXCEPT !.vWindow = WindowTable(2 ^ r.a.nRank, r.a.nWindow)],
          done |-> r.done \cup {R_WINDOW}]
    ELSE r

ReconfTau(r) ==
    IF R_TAU \in r.a.nReconfigure
    THEN [a |-> [r.a EXCEPT !.fTau = TauOf(r.a.nSampleRate, r.a.nFftPeriod, r.a.fReactivity)],
          done |-> r.done \cup {R_TAU}]
    ELSE r

\* The step not aligned to the 4-sample boundary
CounterStep_unaligned(a) == (2 ^ a.nRank) \div a.nChannels

\* step = fft_size / nChannels;  step = step - (step & 0x3)
CounterStep(a) ==
    LET step == (2 ^ a.nRank) \div a.nChannels
    IN  step - (step % 4)

ReconfCounters(r) ==
    IF R_COUNTERS \in r.a.nReconfigure
    THEN [a |-> [r.a EXCEPT !.vChannels =
                    [i \in 1 .. Len(@) |->
                        [@[i] EXCEPT !.nCounter = (i - 1) * CounterStep(r.a),
                                     !.nDelay = (i - 1) * CounterStep(r.a)]]],
          done |-> r.done \cup {R_COUNTERS}]
    ELSE r

\* Analyzer::reconfigure
reconfigure(a) ==
    IF a.nReconfigure = {} THEN [a |-> a, done |-> {}]
    ELSE LET a1 == [a EXCEPT !.nFftPeriod = a.nSampleRate \div a.fRate]
             r == ReconfCounters(ReconfTau(ReconfWindow(ReconfAnalysis(
                      ReconfEnvelope([a |-> a1, done |-> {}])))))
         IN  [a |-> [r.a EXCEPT !.nReconfigure = {}], done |-> r.done]

\* Lines 302-314: the fft_size ring samples from offset = nHead - nDelay
\* (+ nBufSize if negative), in two segments on wrap, times the window
WindowedRing(a, c) ==
    LET ch == a.vChannels[c]
        off0 == ch.nHead - ch.nDelay
        offset == IF off0 < 0 THEN off0 + a.nBufSize ELSE off0
        count == a.nBufSize - offset
    IN  [k \in 0 .. (2 ^ a.nRank - 1) |->
            IF k < count THEN ch.vBuffer[offset + k] ELSE ch.vBuffer[k - count]]

\* Line 317: mul3(vSigRe, c->vBuffer, vWindow, fft_size), the first fft_size
\* ring slots times the window, written over all of vSigRe
WindowedFlat(a, c) ==
    [k \in 0 .. (2 ^ a.nRank - 1) |-> a.vChannels[c].vBuffer[k]]

\* Line 297, 299: the channel's window is taken and transformed when an FFT is
\* due
FftTransforms(a, c) ==
    ~a.vChannels[c].bFreeze /\ a.bActive /\ a.vChannels[c].bActive

\* The ring samples at (nHead - nDelay + k) mod nBufSize, k = 0 .. fft_size - 1,
\* as they stand when the FFT falls due (the window of lines 299-314)
RingWindow(a, c) ==
    LET ch == a.vChannels[c]
    IN  [k \in 0 .. (2 ^ a.nRank - 1) |->
            ch.vBuffer[(ch.nHead + a.nBufSize - ch.nDelay + k) % a.nBufSize]]

\* An FFT is due, with the freeze flag not looked at
FftDue_nofreeze(a, c) ==
    IF a.bActive /\ a.vChannels[c].bActive
    THEN [a EXCEPT !.vSigRe = WindowedFlat(a, c), !.vChannels[c].vAmp = @ + 1]
    ELSE [a EXCEPT !.vChannels[c].vAmp = 0]

\* An FFT is due on channel c (lines 296-328): transform and mix, or zero
FftDue(a, c) ==
    IF ~a.vChannels[c].bFreeze
    THEN IF a.bActive /\ a.vChannels[c].bActive
         THEN [a EXCEPT !.vSigRe = WindowedFlat(a, c), !.vChannels[c].vAmp = @ + 1]
         ELSE [a EXCEPT !.vChannels[c].vAmp = 0]
    ELSE a

\* Lines 335-359: append to_process samples, the first of which is number
\* first of the input, at nHead
AppendSamples(a, c, to_process, first) ==
    LET ch == a.vChannels[c]
        count == a.nBufSize - ch.nHead
        buf == [k \in 0 .. (a.nBufSize - 1) |->
                    IF count < to_process
                    THEN IF k >= ch.nHead THEN first + (k - ch.nHead)
                         ELSE IF k < to_process - count THEN first + count + k
                         ELSE ch.vBuffer[k]
                    ELSE IF k >= ch.nHead /\ k < ch.nHead + to_process
                         THEN first + (k - ch.nHead)
                         ELSE ch.vBuffer[k]]
    IN  [a EXCEPT !.vChannels[c] =
            [ch EXCEPT !.vBuffer = buf,
                       !.nHead = IF count < to_process THEN to_process - count
                                 ELSE ch.nHead + to_process,
                       !.nCounter = @ + to_process]]

\* while (samples > 0) { ... } on the state x = [a, samples, first, ffts, hung,
\* win], win the ring window of the last transform;
\* with nFftPeriod = 0 the FFT branch changes nothing the loop condition reads
\* and the loop does not end
RECURSIVE ProcessSamples(_, _)
ProcessSamples(x, c) ==
    IF ~(x.samples > 0) THEN x
    ELSE LET ch == x.a.vChannels[c]
             to_process == x.a.nFftPeriod - ch.nCounter
         IN  IF to_process <= 0
             THEN LET a1 == FftDue(x.a, c)
                      a2 == [a1 EXCEPT !.vChannels[c].nCounter = @ - a1.nFftPeriod]
                      x2 == [x EXCEPT !.a = a2, !.ffts = @ + 1,
                                      !.win = IF FftTransforms(x.a, c)
                                              THEN RingWindow(x.a, c) ELSE @]
                  IN  IF a2.nFftPeriod = 0 THEN [x2 EXCEPT !.hung = TRUE]
                      ELSE ProcessSamples(x2, c)
             ELSE LET tp == Min(Min(to_process, x.samples), 2 ^ x.a.nRank)
                  IN  ProcessSamples([x EXCEPT !.a = AppendSamples(x.a, c, tp, x.first),
                                               !.first = @ + tp,
                                               !.samples = @ - tp], c)

\* Analyzer::process(channel, in, samples), in holding the next samples of
\* the input
Analyzer_process(channel, samples) ==
    /\ AnCanCall
    /\ LET valid == ~an.vChannelsNull /\ channel < an.nChannels
           r == reconfigure(an)
           x == ProcessSamples([a |-> r.a, samples |-> samples, first |-> anObs.ing + 1,
                                ffts |-> 0, hung |-> FALSE, win |-> <<>>],
                               channel + 1)
       IN  IF ~valid
           THEN /\ an' = an
                /\ anObs' = [anObs EXCEPT !.op = "process", !.arg = channel,
                                !.ret = "void", !.again = FALSE,
                                !.ch = channel, !.samples = samples, !.valid = FALSE,
                                !.pending = an.nReconfigure, !.applied = {},
                                !.ffts = 0, !.frozen = FALSE, !.calls = @ + 1,
                                !.win = <<>>]
           ELSE /\ an' = x.a
                /\ anObs' = [anObs EXCEPT !.op = "process", !.arg = channel,
                                !.ret = "void",
                                !.again = (anObs.op = "process" /\ anObs.valid),
                                !.ch = channel, !.samples = samples, !.valid = TRUE,
                                !.pending = an.nReconfigure, !.applied = r.done,
                                !.ffts = x.ffts,
                                !.frozen = an.vChannels[channel + 1].bFreeze,
                                !.calls = @ + 1, !.ing = @ + samples,
                                !.hung = x.hung, !.win = x.win]
    /\ UNCHANGED <<oscVars, bqVars>>

\* A level is the pair of the factors it is the product of; 0.0f is the
\* product of zeros
LevelZero == [amp |-> 0, env |-> NoTable]

\* c->vAmp[j] * vEnvelope[j] of channel c (from 1): 0 where the amplitudes
\* or the envelope are all zeros
AnLevel(a, c) ==
    IF a.vChannels[c].vAmp = 0 \/ a.vEnvelope = NoTable THEN LevelZero
    ELSE [amp |-> a.vChannels[c].vAmp, env |-> a.vEnvelope]

\* The caller's out array before get_spectrum has written it
OutUnwritten == [amp |-> -1, env |-> NoTable]

\* Lines 396-409 on the object a: the value returned and the contents of out
get_spectrum(a, channel) ==
    IF a.vChannelsNull \/ channel >= a.nChannels
    THEN [ok |-> FALSE, out |-> OutUnwritten]
    ELSE [ok |-> TRUE, out |-> AnLevel(a, channel + 1)]

\* get_level answering for channel 0 when the channel is out of range
get_level_ch0(a, channel) ==
    IF a.vChannelsNull THEN LevelZero ELSE AnLevel(a, 1)

\* Lines 411-417 on the object a: the value returned
get_level(a, channel) ==
    IF a.vChannelsNull \/ channel >= a.nChannels THEN LevelZero
    ELSE AnLevel(a, channel + 1)

\* Analyzer::get_spectrum
Analyzer_get_spectrum(channel) ==
    /\ AnCanCall
    /\ an' = an
    /\ anObs' = AnNote("get_spectrum", channel, get_spectrum(an, channel))
    /\ UNCHANGED <<oscVars, bqVars>>

\* Analyzer::get_level
Analyzer_get_level(channel) ==
    /\ AnCanCall
    /\ an' = an
    /\ anObs' = AnNote("get_level", channel, get_level(an, channel))
    /\ UNCHANGED <<oscVars, bqVars>>

(***************************************************************************)
(* Spectrum analyzer: properties                                           *)
(***************************************************************************)

\* The last call was a process call that passed the guard
AnProcessed == anObs.op = "process" /\ anObs.valid

\* C9: a process call on a valid channel with samples = 0 runs the branch of
\* every pending reconfiguration bit and of no other, leaves the tables, tau,
\* the FFT period, the amplitudes and the counters as the current parameters
\* give them, and returns with nReconfigure = 0; a process call right after a
\* process call runs no branch.
C9_PendingAppliedOnce ==
    /\ (AnProcessed /\ anObs.samples = 0) =>
          /\ an.nReconfigure = {}
          /\ anObs.applied = anObs.pending
          /\ anObs.pending # {} => an.nFftPeriod = an.nSampleRate \div an.fRate
          /\ R_ENVELOPE \in anObs.pending =>
                an.vEnvelope = EnvelopeTable(2 ^ an.nRank, an.nEnvelope, an.fShift)
          /\ R_WINDOW \in anObs.pending =>
                an.vWindow = WindowTable(2 ^ an.nRank, an.nWindow)
          /\ R_TAU \in anObs.pending =>
                an.fTau = TauOf(an.nSampleRate, an.nFftPeriod, an.fReactivity)
          /\ R_ANALYSIS \in anObs.pending =>
                \A i \in 1 .. an.nChannels : an.vChannels[i].vAmp = 0
          /\ R_COUNTERS \in anObs.pending =>
                \A i \in 1 .. an.nChannels :
                    LET step == ((2 ^ an.nRank) \div an.nChannels)
                                  - (((2 ^ an.nRank) \div an.nChannels) % 4)
                    IN  /\ an.vChannels[i].nCounter = (i - 1) * step
                        /\ an.vChannels[i].nDelay = (i - 1) * step
    /\ (AnProcessed /\ anObs.again) => anObs.applied = {}

\* set_window and set_rate, then process with no samples: the window was
\* regenerated and the counters redistributed, and nothing else was pending
C9_Witness ==
    /\ AnProcessed /\ anObs.samples = 0
    /\ anObs.pending = {R_WINDOW, R_COUNTERS}
    /\ an.vWindow.kind = HAMMING /\ an.fRate = 2
    /\ an.nChannels = 2

\* The step is a process call
AnProcessStep == anObs'.calls = anObs.calls + 1

\* C10 as stated: a frozen channel's vAmp is unchanged by every process call,
\* also by one that applies a pending reconfiguration.
C10_FrozenAmpPreserved ==
    [][\A c \in 1 .. Len(an.vChannels) :
          (an.vChannels[c].bFreeze /\ AnProcessStep) =>
              an'.vChannels[c].vAmp = an.vChannels[c].vAmp]_vars

\* C10 amended: a frozen channel's vAmp is unchanged by every process call
\* that finds no R_ANALYSIS pending; a process call on a valid channel that
\* finds R_ANALYSIS pending leaves it all zeros.
C10_FrozenAmpPreservedUnlessCleared ==
    [][\A c \in 1 .. Len(an.vChannels) :
          (an.vChannels[c].bFreeze /\ AnProcessStep) =>
              IF R_ANALYSIS \in an.nReconfigure
              THEN anObs'.valid => an'.vChannels[c].vAmp = 0
              ELSE an'.vChannels[c].vAmp = an.vChannels[c].vAmp]_vars

\* An FFT fell due in a process call on a channel that was frozen with a
\* spectrum in vAmp, and the spectrum is still there
C10_Witness ==
    /\ AnProcessed /\ anObs.frozen /\ anObs.ffts >= 1 /\ ~anObs.hung
    /\ an.vChannels[anObs.ch + 1].bActive
    /\ an.vChannels[anObs.ch + 1].vAmp > 0

\* The step is a call of the setter or flag operation op
AnSetStep(op) == anObs'.sets = anObs.sets + 1 /\ anObs'.op = op

\* C11: set_rank(r) returns false and changes neither nRank nor nReconfigure
\* when r < 2 or r > nMaxRank; it returns true and adds no bit to
\* nReconfigure when r is the current rank; otherwise it returns true,
\* stores r and leaves every reconfiguration bit pending.
C11_SetRank ==
    [][AnSetStep("set_rank") =>
          LET r == anObs'.arg
          IN  IF r < 2 \/ r > an.nMaxRank
              THEN /\ anObs'.ret = FALSE
                   /\ an'.nRank = an.nRank /\ an'.nReconfigure = an.nReconfigure
              ELSE IF r = an.nRank
              THEN /\ anObs'.ret = TRUE
                   /\ an'.nRank = an.nRank /\ an'.nReconfigure = an.nReconfigure
              ELSE /\ anObs'.ret = TRUE
                   /\ an'.nRank = r /\ an'.nReconfigure = R_ALL]_vars

\* set_rank with the current rank was called with nothing pending, returned
\* true and left nothing pending
C11_Witness ==
    /\ anObs.op = "set_rank" /\ anObs.arg = an.nRank /\ anObs.ret = TRUE
    /\ an.nReconfigure = {} /\ anObs.calls > 0

\* The setters, the field each one stores into and the bits it marks
AnSetters ==
    {"set_sample_rate", "set_rank", "set_window", "set_envelope", "set_shift",
     "set_reactivity", "set_rate"}

AnSetterField ==
    [set_sample_rate |-> "nSampleRate", set_rank |-> "nRank", set_window |-> "nWindow",
     set_envelope |-> "nEnvelope", set_shift |-> "fShift",
     set_reactivity |-> "fReactivity", set_rate |-> "fRate"]

AnSetterBits ==
    [set_sample_rate |-> R_ALL, set_rank |-> R_ALL, set_window |-> {R_WINDOW},
     set_envelope |-> {R_ENVELOPE}, set_shift |-> {R_ENVELOPE},
     set_reactivity |-> {R_TAU}, set_rate |-> {R_COUNTERS}]

\* The value setter op stores when called with v on the object a: v, the
\* sample rate limited by nMaxSampleRate, the rate by fMinRate; a rank out
\* of range is not stored
AnSetterValue(a, op, v) ==
    CASE op = "set_sample_rate" -> IF v > a.nMaxSampleRate THEN a.nMaxSampleRate ELSE v
      [] op = "set_rate" -> IF v < a.fMinRate THEN a.fMinRate ELSE v
      [] op = "set_rank" -> IF v < 2 \/ v > a.nMaxRank THEN a.nRank ELSE v
      [] OTHER -> v

\* C12: every setter stores the (clamped) parameter and ORs its bits into
\* nReconfigure when the value differs from the current one, leaves
\* nReconfigure as it is when it does not, and changes nothing else: the
\* tables, tau, the FFT period and every channel's counter, delay, head and
\* amplitudes are as before.
C12_SettersOnlyMark ==
    [][\A op \in AnSetters :
          AnSetStep(op) =>
              LET f == AnSetterField[op]
                  v == AnSetterValue(an, op, anObs'.arg)
              IN  /\ an'[f] = v
                  /\ an'.nReconfigure = IF v # an[f]
                                        THEN an.nReconfigure \cup AnSetterBits[op]
                                        ELSE an.nReconfigure
                  /\ \A g \in (DOMAIN an) \ {f, "nReconfigure"} : an'[g] = an[g]]_vars

\* set_sample_rate was called with a rate above nMaxSampleRate after a
\* process call: the limit is stored, everything is pending, and the FFT
\* period is still the one of the rate before
C12_Witness ==
    /\ anObs.op = "set_sample_rate" /\ anObs.arg > an.nMaxSampleRate
    /\ an.nSampleRate = an.nMaxSampleRate /\ an.nReconfigure = R_ALL
    /\ anObs.calls > 0 /\ an.nFftPeriod # an.nSampleRate \div an.fRate

\* C13: every channel's ring head satisfies 0 <= nHead < nBufSize, also
\* after an append that ends at the last ring slot.
C13_HeadInRing ==
    \A c \in 1 .. Len(an.vChannels) :
        0 <= an.vChannels[c].nHead /\ an.vChannels[c].nHead < an.nBufSize

\* reconfigure has run: the first run finds every bit pending and generates
\* the window table
AnReconfigured == an.vWindow # NoTable

\* C14: after the first reconfiguration every channel's sample counter
\* satisfies 0 <= nCounter <= nFftPeriod.
C14_CounterWithinPeriod ==
    AnReconfigured =>
        \A c \in 1 .. Len(an.vChannels) :
            0 <= an.vChannels[c].nCounter /\ an.vChannels[c].nCounter <= an.nFftPeriod

\* C15: after every reconfiguration each channel's phase delay satisfies
\* nDelay <= nBufSize - 2^nRank.
C15_DelayLeavesWindow ==
    (AnProcessed /\ anObs.applied # {}) =>
        \A c \in 1 .. Len(an.vChannels) :
            an.vChannels[c].nDelay <= an.nBufSize - 2 ^ an.nRank

\* The step is a call of op, other than init
AnCallStep(op) ==
    /\ anObs'.sets + anObs'.calls = anObs.sets + anObs.calls + 1
    /\ anObs'.op = op

\* C16: a channel-indexed call with an out-of-range channel, or on an
\* analyzer that is not initialised, changes nothing of the analyzer (for
\* process: ring, counters, amplitudes and nReconfigure are as before);
\* freeze_channel, enable_channel and get_spectrum return false, get_spectrum
\* writes nothing, get_level returns 0.
C16_InvalidChannelNoOp ==
    [][\A op \in {"process", "freeze_channel", "enable_channel", "get_spectrum", "get_level"} :
          (AnCallStep(op) /\ (an.vChannelsNull \/ anObs'.arg >= an.nChannels)) =>
              /\ an' = an
              /\ op \in {"freeze_channel", "enable_channel"} => anObs'.ret = FALSE
              /\ op = "get_spectrum" =>
                    anObs'.ret = [ok |-> FALSE, out |-> OutUnwritten]
              /\ op = "get_level" => anObs'.ret = LevelZero]_vars

\* get_level was called with an out-of-range channel on an analyzer whose
\* channel 0 has a spectrum and an envelope, and returned 0
C16_Witness ==
    /\ anObs.op = "get_level" /\ ~an.vChannelsNull /\ anObs.arg >= an.nChannels
    /\ anObs.ret = LevelZero
    /\ an.vChannels[1].vAmp > 0 /\ an.vEnvelope # NoTable

\* C17: every process call on an initialised analyzer returns, all of its
\* samples consumed, also right after init with no sample rate set.
C17_ProcessReturns == ~anObs.hung

\* C20 as stated: after init channel i (from 0) has nCounter = nDelay =
\* i * (N / C) rounded down to a multiple of 4.
C20_StaggeredAfterInit ==
    anObs.op = "init" =>
        \A i \in 1 .. an.nChannels :
            /\ an.vChannels[i].nCounter = (i - 1) * CounterStep(an)
            /\ an.vChannels[i].nDelay = (i - 1) * CounterStep(an)

\* C20 amended: after init every counter and delay is 0 and every bit is
\* pending; after the process call that finds R_COUNTERS pending (the first
\* one on a valid channel after init) channel i has nDelay = i * (N / C)
\* rounded down to a multiple of 4, and nCounter the same unless the call
\* fed it samples.
C20_StaggeredByFirstProcess ==
    /\ anObs.op = "init" =>
          /\ an.nReconfigure = R_ALL
          /\ \A i \in 1 .. an.nChannels :
                an.vChannels[i].nCounter = 0 /\ an.vChannels[i].nDelay = 0
    /\ (AnProcessed /\ R_COUNTERS \in anObs.pending) =>
          LET N == 2 ^ an.nRank
              q == N \div an.nChannels
              step == CHOOSE m \in 0 .. q : m % 4 = 0 /\ m <= q /\ q < m + 4
          IN  \A i \in 1 .. an.nChannels :
                /\ an.vChannels[i].nDelay = (i - 1) * step
                /\ (i # anObs.ch + 1 \/ anObs.samples = 0) =>
                      an.vChannels[i].nCounter = (i - 1) * step

\* Three channels at rank 4 after init and a first process call without
\* samples: 16 / 3 = 5 rounds down to 4, the counters are 0, 4, 8
C20_Witness ==
    /\ AnProcessed /\ anObs.pending = R_ALL /\ anObs.samples = 0 /\ anObs.calls = 1
    /\ an.nChannels = 3 /\ an.nRank = 4
    /\ an.vChannels[2].nCounter = 4 /\ an.vChannels[3].nCounter = 8
    /\ an.vChannels[2].nDelay = 4 /\ an.vChannels[3].nDelay = 8

\* C23: when an FFT fell due in a process call on a channel for which the
\* analyzer or the channel is inactive, the channel's amplitude array is all
\* zeros afterwards, whether or not the channel is frozen.
C23_InactiveZeroed ==
    (AnProcessed /\ anObs.ffts >= 1
        /\ ~(an.bActive /\ an.vChannels[anObs.ch + 1].bActive)) =>
        an.vChannels[anObs.ch + 1].vAmp = 0

(***************************************************************************)
\* C22: when a process call transformed the channel's window (an FFT fell due,
\* channel not frozen, analyzer and channel active), the samples handed to the
\* FFT are the ring samples at (head - delay + k) mod B, k = 0 .. N - 1, as they
\* stood when the last FFT of the call fell due.
C22_WindowFromRing ==
    (AnProcessed /\ anObs.win # <<>>) => an.vSigRe = anObs.win

\* Two smoothing factors are the same number when they come from the same
\* reactivity and the same ratio sample rate / FFT period
TauSame(t, u) ==
    t.react = u.react /\ t.period > 0 /\ u.period > 0
        /\ t.sr * u.period = u.sr * t.period

\* C28: after a process call that ran a reconfiguration, tau is the smoothing
\* factor of the current sample rate, the current FFT period and the current
\* reactivity (stated where the reactivity is nonzero and the period positive,
\* where tau depends on them).
C28_TauCurrent ==
    (AnProcessed /\ anObs.applied # {} /\ an.fReactivity # 0 /\ an.nFftPeriod > 0) =>
        TauSame(an.fTau, TauOf(an.nSampleRate, an.nFftPeriod, an.fReactivity))

\* The init calls of the lifecycle specification
AnLifeInits == {<<channels, 3, max_sr, 1>> : channels \in 1 .. 2, max_sr \in {8, 24}}

\* C30: a channel index is in range only while the channel array is allocated
\* (nChannels = 0 whenever vChannels is null); freeze_channel and
\* enable_channel called without a channel array return false; and an init
\* that succeeds leaves the state a first init with some arguments leaves.
C30_Lifecycle ==
    /\ an.vChannelsNull => an.nChannels = 0
    /\ (anObs.op \in {"freeze_channel", "enable_channel"} /\ an.vChannelsNull) =>
           anObs.ret = FALSE
    /\ (anObs.op = "init" /\ anObs.ret = TRUE) =>
           \E i \in AnLifeInits : an = init(construct, i[1], i[2], i[3], i[4])

(* Specifications                                                          *)
(***************************************************************************)

\* Oscilloscope
Init == OscInit /\ BqIdle /\ AnInit

Next ==
    \/ CanSet /\ \E sr \in {1} : set_sample_rate(sr)
    \/ CanSet /\ \E m \in {OM_NONE, OM_3X} : set_oversampler_mode(m)
    \/ CanSet /\ \E t \in 0 .. MaxTime : set_pre_trigger(t)
    \/ CanSet /\ \E t \in 0 .. MaxTime : set_post_trigger(t)
    \/ update_settings
    \/ update_settings_nosync
    \/ \E count \in 1 .. MaxCount :
         \E F \in FireSets(nOversampling * count) : process(count, F)

Spec == Init /\ [][Next]_vars

\* Oscilloscope whose host keeps calling process with count > 0 (as long as
\* the behaviour has samples left)
ProcessStep ==
    \E count \in 1 .. MaxCount :
        \E F \in FireSets(nOversampling * count) : process(count, F)

SpecLive == Init /\ [][Next]_vars /\ WF_vars(ProcessStep)

\* Oscilloscope whose settings are changed and applied again while it runs
InitResync == OscInit /\ BqIdle /\ AnInit

NextResync ==
    \/ CanResync /\ \E sr \in {1} : set_sample_rate(sr)
    \/ CanResync /\ \E m \in {OM_NONE, OM_3X} : set_oversampler_mode(m)
    \/ CanResync /\ \E t \in 0 .. MaxTime : set_pre_trigger(t)
    \/ CanResync /\ \E t \in 0 .. MaxTime : set_post_trigger(t)
    \/ update_settings
    \/ update_settings_nosync
    \/ \E count \in 1 .. MaxCount :
         \E F \in FireSets(nOversampling * count) : process(count, F)

SpecResync == InitResync /\ [][NextResync]_vars

\* Biquad engine
InitBq == OscInit /\ BqInit /\ AnInit

NextBq == \E count \in 1 .. MaxLen : BqCall(count)

SpecBq == InitBq /\ [][NextBq]_vars

\* Spectrum analyzer
InitAn == OscInit /\ BqIdle /\ AnInit

NextAn ==
    \/ anObs.op = "construct" /\ \E channels \in 1 .. 2 : Analyzer_init(channels, 3, 8, 1)
    \/ \E sr \in {2, 9} : Analyzer_set_sample_rate(sr)
    \/ \E rate \in {0, 2} : Analyzer_set_rate(rate)
    \/ \E w \in {HAMMING} : Analyzer_set_window(w)
    \/ \E e \in {WHITE_NOISE} : Analyzer_set_envelope(e)
    \/ \E sh \in {2} : Analyzer_set_shift(sh)
    \/ \E re \in {1} : Analyzer_set_reactivity(re)
    \/ \E rank \in 1 .. 4 : Analyzer_set_rank(rank)
    \/ ~an.vChannelsNull /\ \E channel \in 0 .. 1 : \E f \in BOOLEAN :
         freeze_channel(channel, f)
    \/ ~an.vChannelsNull /\ \E channel \in 0 .. 1 : enable_channel(channel, FALSE)
    \/ \E channel \in 0 .. an.nChannels : \E samples \in {0, MaxAnCount} :
         Analyzer_process(channel, samples)

SpecAn == InitAn /\ [][NextAn]_vars

\* Spectrum analyzer from construction: any init, the channel-indexed calls
\* before and after it, the setters the FFT geometry depends on
InitAnCh == OscInit /\ BqIdle /\ AnInit

\* The calls of one behaviour are bounded
AnChCan == anObs.sets + anObs.calls < MaxChOps

NextAnCh ==
    \/ AnChCan /\ \E channels \in 1 .. 3 : \E max_rank \in {3, 4} : \E max_sr \in {8, 24} :
         Analyzer_init(channels, max_rank, max_sr, 1)
    \/ AnChCan /\ \E sr \in {2, 8} : Analyzer_set_sample_rate(sr)
    \/ AnChCan /\ \E rate \in {2} : Analyzer_set_rate(rate)
    \/ AnChCan /\ \E rank \in 2 .. 4 : Analyzer_set_rank(rank)
    \/ AnChCan /\ \E channel \in 0 .. 3 : freeze_channel(channel, TRUE)
    \/ AnChCan /\ \E channel \in 0 .. 3 : enable_channel(channel, FALSE)
    \/ AnChCan /\ \E channel \in 0 .. 3 : \E samples \in {0, MaxAnCount} :
         Analyzer_process(channel, samples)
    \/ AnChCan /\ \E channel \in 0 .. 3 : Analyzer_get_spectrum(channel)
    \/ AnChCan /\ \E channel \in 0 .. 3 : Analyzer_get_level(channel)

SpecAnCh == InitAnCh /\ [][NextAnCh]_vars

\* Spectrum analyzer lifecycle: init succeeding or failing, destroy, and the
\* channel flags and the sample rate set in between
InitAnLife == OscInit /\ BqIdle /\ AnInit

\* The calls of one behaviour are bounded
AnLifeCan == anObs.sets + anObs.calls < MaxLifeOps

NextAnLife ==
    \/ AnLifeCan /\ \E i \in AnLifeInits : Analyzer_init(i[1], i[2], i[3], i[4])
    \/ AnLifeCan /\ \E i \in AnLifeInits : Analyzer_init_fail(i[1], i[2], i[3], i[4])
    \/ AnLifeCan /\ Analyzer_destroy
    \/ AnLifeCan /\ \E sr \in {2} : Analyzer_set_sample_rate(sr)
    \/ AnLifeCan /\ \E channel \in 0 .. 2 : \E f \in BOOLEAN : freeze_channel(channel, f)
    \/ AnLifeCan /\ \E channel \in 0 .. 2 : \E e \in BOOLEAN : enable_channel(channel, e)

SpecAnLife == InitAnLife /\ [][NextAnLife]_vars

====
